---- MODULE Spec2Model ----
(***************************************************************************)
(* Model of src/client.py: the Client of the economic-indicators web API.  *)
(*                                                                         *)
(* Python values are modelled with their run-time type, because the code   *)
(* relies on dynamic typing (subscripting None, len(None), `in` on None):  *)
(* a value is a record with a field t naming its type.  An operation of    *)
(* the client yields an outcome: Return(v) or Raise(exception class).      *)
(*                                                                         *)
(* A constructed client holds no mutable state (the lookup tables are      *)
(* only read), so each behaviour observes one method call on a client;     *)
(* the variable call records that call: its arguments and its outcome.     *)
(***************************************************************************)
EXTENDS Integers, Sequences, FiniteSets, TLC

VARIABLES files, obj, lut, call

vars == <<files, obj, lut, call>>

(***************************************************************************)
(* Bounds of the model.                                                    *)
(***************************************************************************)
MaxIso == 2        \* country identifiers in one call
MaxNames == 2      \* indicator names in one call
MaxRows == 2       \* rows of a persisted indicator table
MaxProbe == 3      \* largest max_index given to getIndicatorLookup
MaxCountries == 2  \* country elements of a response document
MaxElements == 2   \* data elements of a response document (all countries)

(***************************************************************************)
(* Python values and outcomes.                                             *)
(***************************************************************************)
PyNone == [t |-> "None"]
PyStr(s) == [t |-> "str", str |-> s]
PyInt(n) == [t |-> "int", int |-> n]
PyList(s) == [t |-> "list", items |-> s]
PyDict(f) == [t |-> "dict", map |-> f]

Return(v) == [ok |-> TRUE, value |-> v]
Raise(e) == [ok |-> FALSE, exc |-> e]

\* All sequences over S of length at most n.
SeqsUpTo(S, n) == UNION {[1..k -> S] : k \in 0..n}

\* The elements of a sequence.
Range(s) == {s[i] : i \in DOMAIN s}

\* The orders in which iterating a Python set can yield its members.
Orderings(S) ==
  {s \in [1..Cardinality(S) -> S] : \A i, j \in DOMAIN s : i # j => s[i] # s[j]}

(***************************************************************************)
(* class Frequency( Enum ): annual = 1, monthly = 2                        *)
(***************************************************************************)
annual == [name |-> "annual", value |-> 1]
monthly == [name |-> "monthly", value |-> 2]
Frequency == <<annual, monthly>>

(***************************************************************************)
(* pycountry.countries: the ISO 3166 database, cut down to three entries.  *)
(* get(alpha_2=x) / get(alpha_3=x) yields the entry or nothing; taking an  *)
(* attribute of nothing raises inside the caller's try block.              *)
(***************************************************************************)
Countries ==
  { [alpha_2 |-> "IN", alpha_3 |-> "IND"],
    [alpha_2 |-> "CN", alpha_3 |-> "CHN"],
    [alpha_2 |-> "US", alpha_3 |-> "USA"] }

pycountry_get(field, code) == {c \in Countries : c[field] = code}

(***************************************************************************)
(* getAlpha2Codes / getAlpha3Codes: an identifier of the target length is  *)
(* added as it is, one of the other length is looked up in pycountry and   *)
(* contributes its equivalent, or nothing when the lookup fails (the       *)
(* exception is caught and printed); any other length contributes nothing. *)
(***************************************************************************)
RECURSIVE getAlpha2Codes(_)
getAlpha2Codes(iso_codes) ==
  IF iso_codes = <<>> THEN {}
  ELSE LET iso_code == Head(iso_codes)
           codes == getAlpha2Codes(Tail(iso_codes))
       IN  IF Len(iso_code) = 2 THEN codes \cup {iso_code}
           ELSE IF Len(iso_code) = 3
             THEN codes \cup {c.alpha_2 : c \in pycountry_get("alpha_3", iso_code)}
           ELSE codes

RECURSIVE getAlpha3Codes(_)
getAlpha3Codes(iso_codes) ==
  IF iso_codes = <<>> THEN {}
  ELSE LET iso_code == Head(iso_codes)
           codes == getAlpha3Codes(Tail(iso_codes))
       IN  IF Len(iso_code) = 3 THEN codes \cup {iso_code}
           ELSE IF Len(iso_code) = 2
             THEN codes \cup {c.alpha_3 : c \in pycountry_get("alpha_2", iso_code)}
           ELSE codes

(***************************************************************************)
(* pandas: Series.str.contains( pat ) with pat = '|'.join( codes ).  The   *)
(* pattern is a regular expression searched anywhere in the cell; for the  *)
(* alphanumeric codes of the model it is the alternation of the codes as   *)
(* literals, and the join of no codes is the empty pattern, which is found *)
(* in every string.                                                        *)
(***************************************************************************)
Find(s, p) ==
  \E i \in 1..(Len(s) - Len(p) + 1) : SubSeq(s, i, i + Len(p) - 1) = p

str_contains(cell, alternatives) ==
  IF alternatives = {} THEN Find(cell, "")
  ELSE \E p \in alternatives : Find(cell, p)

\* table[ table[ 'code' ].str.contains( pat ) ]: the rows whose code cell holds
\* the pattern, in the table's order (boolean indexing).
RECURSIVE RowsContaining(_, _)
RowsContaining(table, alternatives) ==
  IF table = <<>> THEN <<>>
  ELSE (IF str_contains(Head(table).code, alternatives) THEN <<Head(table)>> ELSE <<>>)
         \o RowsContaining(Tail(table), alternatives)

(***************************************************************************)
(* pandas: == on the name column.  A cell read as a missing value (NaN)    *)
(* equals nothing, itself included.                                        *)
(***************************************************************************)
NaN == "<NaN>"

NameEq(cell, name) == cell # NaN /\ name # NaN /\ cell = name

\* table[ table[ 'name' ] == name ]: the rows with that name, in the table's order.
RECURSIVE RowsNamed(_, _)
RowsNamed(table, name) ==
  IF table = <<>> THEN <<>>
  ELSE (IF NameEq(Head(table).name, name) THEN <<Head(table)>> ELSE <<>>)
         \o RowsNamed(Tail(table), name)

(***************************************************************************)
(* getIndicatorIndexes: for each name in turn, the rows of the frequency's *)
(* table with that name; one row gives its index, any other count is       *)
(* printed and gives nothing.  self is the client: its root, uid, uidc and *)
(* its tables self.lut.  (getIndicatorIndexesLax takes the first of one or *)
(* more rows: the slip the exactly-one test guards against.)               *)
(***************************************************************************)
getIndicatorIndexesLax(self, frequency, names) ==
  LET RECURSIVE walk(_)
      walk(ns) ==
        IF ns = <<>> THEN <<>>
        ELSE LET name == Head(ns)
                 rows == RowsNamed(self.lut[frequency.name], name)
             IN  (IF Len(rows) >= 1 THEN <<rows[1].index>> ELSE <<>>) \o walk(Tail(ns))
  IN  walk(names)

getIndicatorIndexes(self, frequency, names) ==
  LET RECURSIVE walk(_)
      walk(ns) ==
        IF ns = <<>> THEN <<>>
        ELSE LET name == Head(ns)
                 rows == RowsNamed(self.lut[frequency.name], name)
             IN  (IF Len(rows) = 1 THEN <<rows[1].index>> ELSE <<>>) \o walk(Tail(ns))
  IN  walk(names)

(***************************************************************************)
(* Keyword arguments: a function from the keywords given to their values.  *)
(* kwargs.get( k ) is None when k was not given.                           *)
(***************************************************************************)
NoKwargs == [k \in {} |-> 0]

Given(kwargs, k) == k \in DOMAIN kwargs

\* datetime.now().year
CurrentYear == 2026

\* the default of kwargs.get( 'start_year', 1960 )
DefaultStartYear == 1960

(***************************************************************************)
(* getUri( iso_codes, frequency, **kwargs ).  The URI is kept as the       *)
(* fields of its template; ind and cnt are the lists of str() values that  *)
(* ','.join() puts between commas.  For an annual query codes is a set:    *)
(* iter is the order in which iterating it yields the members.             *)
(***************************************************************************)
getUri(self, iso_codes, frequency, kwargs, iter) ==
  LET period ==
        IF Given(kwargs, "period") THEN kwargs["period"]
        ELSE LET start_year == IF Given(kwargs, "start_year")
                                 THEN kwargs["start_year"] ELSE DefaultStartYear
                 end_year == IF Given(kwargs, "end_year")
                               THEN kwargs["end_year"] ELSE CurrentYear
             IN  ToString(start_year) \o ":" \o ToString(end_year)
      codes ==
        IF frequency = annual THEN iter
        ELSE LET alpha3_codes == getAlpha3Codes(iso_codes)
                 rows == RowsContaining(self.lut["api"], alpha3_codes)
             IN  [i \in DOMAIN rows |-> ToString(rows[i].id)]
      \* indexes: None unless indicators or indexes was given
      indexes ==
        IF Given(kwargs, "indicators")
          THEN Return(getIndicatorIndexes(self, frequency, kwargs["indicators"]))
        ELSE IF Given(kwargs, "indexes") THEN Return(kwargs["indexes"])
        ELSE Raise("TypeError")   \* len( None )
  IN  IF Len(codes) > 0
        THEN IF ~indexes.ok THEN indexes
             ELSE IF Len(indexes.value) > 0
               THEN Return([t |-> "uri",
                            root |-> self.root,
                            tp |-> frequency.value,
                            ind |-> [i \in DOMAIN indexes.value |-> ToString(indexes.value[i])],
                            cnt |-> codes,
                            prd |-> period,
                            uid |-> self.uid,
                            uidc |-> self.uidc])
             ELSE Return(PyNone)
      ELSE Return(PyNone)

\* Binding of a call self.getUri( *args, **kwargs ): iso_codes and frequency are
\* required positional parameters.
Call_getUri(self, args, kwargs, iter) ==
  IF Len(args) # 2 THEN Raise("TypeError")
  ELSE getUri(self, args[1], args[2], kwargs, iter)

\* The orders of the set that getUri iterates for these arguments.
SetOrders(iso_codes, frequency) ==
  IF frequency = annual THEN Orderings(getAlpha2Codes(iso_codes)) ELSE {<<>>}

(***************************************************************************)
(* The cfg directory and the constructor.                                  *)
(***************************************************************************)
\* country-code.csv: the vendor's own country IDs, by 3-letter code.
ApiTable == << [code |-> "IND", id |-> 100], [code |-> "CHN", id |-> 38] >>

\* credentials.yml and the default root.
Root == "https://www.theglobaleconomy.com/data_export_api.php"
Credentials == [uid |-> "90902", uidc |-> "0318f527"]

\* The client as the methods see it.
Self == [root |-> Root, uid |-> Credentials.uid, uidc |-> Credentials.uidc, lut |-> lut]

(***************************************************************************)
(* XML documents and xmltodict.parse.  An element has a tag, attributes,   *)
(* child elements and text.  xmltodict turns an element with no attribute  *)
(* and no child into its text, or None when it has no text; any other      *)
(* element into a mapping with a key '@name' per attribute and a key per   *)
(* child tag, whose value is the child's item, or the list of the items    *)
(* when the tag occurs more than once.                                     *)
(***************************************************************************)
Element(tag, attrs, children, text) ==
  [tag |-> tag, attrs |-> attrs, children |-> children, text |-> text]

RECURSIVE ChildrenTagged(_, _)
ChildrenTagged(children, tag) ==
  IF children = <<>> THEN <<>>
  ELSE (IF Head(children).tag = tag THEN <<Head(children)>> ELSE <<>>)
         \o ChildrenTagged(Tail(children), tag)

RECURSIVE xmltodict_item(_)
xmltodict_item(e) ==
  IF DOMAIN e.attrs = {} /\ e.children = <<>>
    THEN IF e.text = "" THEN PyNone ELSE PyStr(e.text)
  ELSE LET attrKeys == {"@" \o a : a \in DOMAIN e.attrs}
           tags == {e.children[i].tag : i \in DOMAIN e.children}
           textKeys == IF e.text = "" THEN {} ELSE {"#text"}
           attrOf(k) == CHOOSE a \in DOMAIN e.attrs : "@" \o a = k
           childValue(tag) ==
             LET same == ChildrenTagged(e.children, tag)
             IN  IF Len(same) = 1 THEN xmltodict_item(same[1])
                 ELSE PyList([i \in DOMAIN same |-> xmltodict_item(same[i])])
       IN  PyDict([k \in attrKeys \cup tags \cup textKeys |->
                     IF k \in attrKeys THEN PyStr(e.attrs[attrOf(k)])
                     ELSE IF k \in tags THEN childValue(k)
                     ELSE PyStr(e.text)])

xmltodict_parse(doc) == PyDict(doc.tag :> xmltodict_item(doc))

(***************************************************************************)
(* postRequest( uri ): one requests.get, raise_for_status, isXml,          *)
(* xmltodict.parse, inside a try whose except clauses print and fall       *)
(* through to `return data`.  response is what the network does with the   *)
(* request: an exception of requests.get or raise_for_status, or a body.   *)
(***************************************************************************)
\* The exception classes of the model, each with the classes it derives from.
Ancestors(exc) ==
  CASE exc = "HTTPError" -> {"HTTPError", "RequestException", "BaseException"}
    [] exc = "ConnectionError" -> {"ConnectionError", "RequestException", "BaseException"}
    [] exc = "ConnectTimeout" ->
         {"ConnectTimeout", "ConnectionError", "Timeout", "RequestException", "BaseException"}
    [] exc = "ReadTimeout" -> {"ReadTimeout", "Timeout", "RequestException", "BaseException"}
    [] exc = "MissingSchema" -> {"MissingSchema", "RequestException", "BaseException"}
    [] exc = "TooManyRedirects" -> {"TooManyRedirects", "RequestException", "BaseException"}
    [] OTHER -> {exc, "BaseException"}

\* The except clauses of postRequest without the last one.
ExceptClausesOfRequests ==
  <<"HTTPError", "ConnectionError", "Timeout", "RequestException">>

\* The except clauses of postRequest, in order.
ExceptClauses ==
  <<"HTTPError", "ConnectionError", "Timeout", "RequestException", "BaseException">>

\* The first clause that catches exc, or 0.
Catching(exc) ==
  LET hits == {i \in DOMAIN ExceptClauses : ExceptClauses[i] \in Ancestors(exc)}
  IN  IF hits = {} THEN 0 ELSE CHOOSE i \in hits : \A j \in hits : i <= j

\* A body that elementTree.fromstring rejects with ParseError.
NotXml == [text |-> "<html>"]

isXml(content) == content # NotXml

\* requests.get( uri, timeout ) followed by raise_for_status(): a URI of None has
\* no scheme, and no request is sent for it.
requests_get(uri, response) ==
  IF uri.t = "None" THEN Raise("MissingSchema")
  ELSE IF response.t = "exception" THEN Raise(response.exc)
  ELSE Return(response)

\* [outcome, gets, printed]: what the call yields, the calls of requests.get it
\* made, and the clause that printed (0: none).
postRequest(uri, response) ==
  LET got == requests_get(uri, response)
      body == IF ~got.ok THEN got
              ELSE IF isXml(got.value.content)
                THEN Return(xmltodict_parse(got.value.content))
              ELSE Return(PyNone)
  IN  IF body.ok THEN [outcome |-> body, gets |-> 1, printed |-> 0]
      ELSE IF Catching(body.exc) # 0
        THEN [outcome |-> Return(PyNone), gets |-> 1, printed |-> Catching(body.exc)]
      ELSE [outcome |-> body, gets |-> 1, printed |-> 0]

(***************************************************************************)
(* Python operations that convertToDataFrame applies to the payload.       *)
(***************************************************************************)
\* x[ key ]
Subscript(x, key) ==
  IF x.t = "dict"
    THEN IF key \in DOMAIN x.map THEN Return(x.map[key]) ELSE Raise("KeyError")
  ELSE Raise("TypeError")

\* key in x
Contains(x, key) ==
  IF x.t = "dict" THEN Return(key \in DOMAIN x.map)
  ELSE IF x.t = "str" THEN Return(Find(x.str, key))
  ELSE IF x.t = "list"
    THEN Return(\E i \in DOMAIN x.items : x.items[i].t = "str" /\ x.items[i].str = key)
  ELSE Raise("TypeError")

\* x if isinstance( x, list ) else [ x ]
AsList(x) == IF x.t = "list" THEN x.items ELSE <<x>>

\* x.get( key, default )
DictGet(x, key, default) ==
  IF x.t = "dict"
    THEN Return(IF key \in DOMAIN x.map THEN x.map[key] ELSE default)
  ELSE Raise("AttributeError")

\* The decimal strings of the model and their values.
Decimals == ("2020" :> 2020) @@ ("3" :> 3) @@ ("13" :> 13)

\* int( x )
ToInt(x) ==
  IF x.t = "int" THEN Return(x.int)
  ELSE IF x.t = "str"
    THEN IF x.str \in DOMAIN Decimals THEN Return(Decimals[x.str]) ELSE Raise("ValueError")
  ELSE Raise("TypeError")

\* datetime.MINYEAR, datetime.MAXYEAR and the months of a year
MinYear == 1
MaxYear == 9999
MonthsInYear == 12

\* date( year, month, 1 )
Date(year, month) ==
  IF year >= MinYear /\ year <= MaxYear /\ month >= 1 /\ month <= MonthsInYear
    THEN Return([year |-> year, month |-> month, day |-> 1])
  ELSE Raise("ValueError")

(***************************************************************************)
(* convertToDataFrame( data ).  The record of an element is built inside   *)
(* a try: the first failing part makes the element print and be skipped.   *)
(* Everything else runs outside any try.                                   *)
(***************************************************************************)
\* The default of element.get( 'ge:month', 1 ): a record's month when the element has none.
DefaultMonth == 1

\* The record of one element of a country entry, or the exception that skips it.
ElementRecord(schema, element) ==
  LET id == Subscript(schema, "@id")
      year == DictGet(element, "ge:year", PyNone)
      y == IF year.ok THEN ToInt(year.value) ELSE year
      month == DictGet(element, "ge:month", PyInt(DefaultMonth))
      m == IF month.ok THEN ToInt(month.value) ELSE month
      d == IF y.ok /\ m.ok THEN Date(y.value, m.value) ELSE IF y.ok THEN m ELSE y
      indicator == Subscript(element, "ge:indicator")
      value == Subscript(element, "ge:value")
  IN  IF ~id.ok THEN id
      ELSE IF ~d.ok THEN d
      ELSE IF ~indicator.ok THEN indicator
      ELSE IF ~value.ok THEN value
      ELSE Return([id |-> id.value, date |-> d.value,
                   indicator |-> indicator.value, value |-> value.value])

\* The records of the elements of one country entry.
RECURSIVE ElementRecords(_, _)
ElementRecords(schema, elements) ==
  IF elements = <<>> THEN <<>>
  ELSE LET r == ElementRecord(schema, Head(elements))
       IN  (IF r.ok THEN <<r.value>> ELSE <<>>) \o ElementRecords(schema, Tail(elements))

\* The loop over the country entries: the records, or the exception that ends it.
RECURSIVE SchemaRecords(_)
SchemaRecords(schemas) ==
  IF schemas = <<>> THEN Return(<<>>)
  ELSE LET schema == Head(schemas)
           has == Contains(schema, "ge:element")
           mine == IF ~has.ok THEN has
                   ELSE IF ~has.value THEN Return(<<>>)
                   ELSE LET section == Subscript(schema, "ge:element")
                        IN  IF ~section.ok THEN section
                            ELSE Return(ElementRecords(schema, AsList(section.value)))
           rest == SchemaRecords(Tail(schemas))
       IN  IF ~mine.ok THEN mine
           ELSE IF ~rest.ok THEN rest
           ELSE Return(mine.value \o rest.value)

convertToDataFrame(data) ==
  LET root == Subscript(data, "ge:data")
      section == IF root.ok THEN Subscript(root.value, "ge:country") ELSE root
      records == IF section.ok THEN SchemaRecords(AsList(section.value)) ELSE section
  IN  IF ~records.ok THEN records
      ELSE IF Len(records.value) > 0
        THEN Return([t |-> "DataFrame", rows |-> records.value])
      ELSE Return(PyNone)

(***************************************************************************)
(* getIndicatorLookup( frequency, max_index ): the loop over               *)
(* range( 1, max_index ).  responses[idx] is what the network does with    *)
(* the request of probe idx.  The result has the outcome (the list lut, or *)
(* the exception that left the loop), the calls of requests.get and the    *)
(* calls of sleep.                                                         *)
(***************************************************************************)
\* the default of max_index
DefaultMaxIndex == 2000

\* data[ 'ge:data' ][ 'ge:country' ][ 'ge:element' ][ 'ge:indicator' ]
IndicatorName(data) ==
  LET a == Subscript(data, "ge:data")
      b == IF a.ok THEN Subscript(a.value, "ge:country") ELSE a
      c == IF b.ok THEN Subscript(b.value, "ge:element") ELSE b
  IN  IF c.ok THEN Subscript(c.value, "ge:indicator") ELSE c

getIndicatorLookup(self, frequency, max_index, responses) ==
  LET RECURSIVE loop(_, _)
      loop(idx, acc) ==
        IF idx >= max_index
          THEN [outcome |-> Return(acc.lut), probes |-> acc.probes, sleeps |-> acc.sleeps]
        ELSE
          LET uri == Call_getUri(self, <<frequency>>,
                                 ("indexes" :> <<idx>>) @@ ("countries" :> <<"India">>)
                                   @@ ("period" :> "latest"),
                                 <<>>)
          IN  IF ~uri.ok
                THEN [outcome |-> uri, probes |-> acc.probes, sleeps |-> acc.sleeps]
              ELSE
                LET r == postRequest(uri.value, responses[idx])
                    probes == acc.probes + r.gets
                IN  IF ~r.outcome.ok
                      THEN [outcome |-> r.outcome, probes |-> probes, sleeps |-> acc.sleeps]
                    ELSE IF r.outcome.value.t = "None"
                      THEN loop(idx + 1, [acc EXCEPT !.probes = probes])
                    ELSE
                      LET name == IndicatorName(r.outcome.value)
                      IN  loop(idx + 1,
                               [lut |-> IF name.ok
                                          THEN Append(acc.lut, [index |-> idx, name |-> name.value])
                                        ELSE acc.lut,
                                probes |-> probes,
                                sleeps |-> acc.sleeps + 1])
  IN  loop(1, [lut |-> <<>>, probes |-> 0, sleeps |-> 0])

(***************************************************************************)
(* The indicator files: pd.DataFrame( lut ).to_csv( pathname ) writes a    *)
(* name as its text and None as an empty cell; pd.read_csv( pathname )     *)
(* reads a cell that holds one of its missing-value markers as NaN.        *)
(***************************************************************************)
NaValues == {"", "NA", "N/A", "NaN", "nan", "NULL", "null"}

to_csv(rows) ==
  [i \in DOMAIN rows |->
     [index |-> rows[i].index,
      name |-> IF rows[i].name.t = "str" THEN rows[i].name.str
               ELSE IF rows[i].name.t = "None" THEN ""
               ELSE "<repr>"]]

read_csv(cells) ==
  [i \in DOMAIN cells |->
     [index |-> cells[i].index,
      name |-> IF cells[i].name \in NaValues THEN NaN ELSE cells[i].name]]

(***************************************************************************)
(* __init__: country-code.csv is loaded, then for each frequency in turn   *)
(* the indicator file is generated with getIndicatorLookup when it does    *)
(* not exist, and loaded.  dir is the cfg directory, a function from the   *)
(* names of the files it holds to their contents.  The result has the      *)
(* outcome, the tables loaded and the directory as the constructor leaves  *)
(* it.                                                                     *)
(***************************************************************************)
\* The indicator file of a frequency is generated from what getIndicatorLookup
\* yielded (got), and loaded.
Generated(before, frequency, got) ==
  IF ~got.ok THEN [before EXCEPT !.outcome = got]
  ELSE [before EXCEPT
          !.dir = (frequency.name :> to_csv(got.value)) @@ @,
          !.lut = (frequency.name :> read_csv(to_csv(got.value))) @@ @]

\* One pass of the loop over the frequencies, from the result of the passes
\* before it.
InitFrequency(before, frequency, responses) ==
  IF ~before.outcome.ok THEN before
  ELSE IF frequency.name \in DOMAIN before.dir
    THEN [before EXCEPT
            !.lut = (frequency.name :> read_csv(before.dir[frequency.name])) @@ @]
  ELSE Generated(before, frequency,
                 getIndicatorLookup([root |-> Root, uid |-> Credentials.uid,
                                     uidc |-> Credentials.uidc, lut |-> before.lut],
                                    frequency, DefaultMaxIndex, responses).outcome)

Init__(dir, responses) ==
  InitFrequency(
    InitFrequency([outcome |-> Return(PyNone), lut |-> "api" :> dir["api"], dir |-> dir],
                  Frequency[1], responses),
    Frequency[2], responses)

(***************************************************************************)
(* The inputs of the model.                                                *)
(***************************************************************************)
\* Country identifiers: ISO codes of both lengths, identifiers of both lengths
\* that pycountry does not know, and a country name.
IsoInputs == {"IN", "IND", "CN", "CHN", "ZZ", "QQQ", "India"}

\* Indicator names, as the caller gives them and as the vendor reports them.
Names == {"Exports, percent of GDP", "Access to electricity"}

\* The name cells of a persisted indicator file: a name, or the empty cell
\* written for an indicator whose name element is empty.
NameCells == Names \cup {""}

\* The indicator files a bootstrap leaves: at most MaxRows rows, for increasing
\* indexes, with any name cells.
PersistedTables ==
  UNION { { [i \in 1..n |-> [index |-> idxs[i], name |-> cells[i]]] :
              idxs \in {s \in [1..n -> 1..MaxRows] : \A i \in 1..(n - 1) : s[i] < s[i + 1]},
              cells \in [1..n -> NameCells] } : n \in 0..MaxRows }

\* The monthly indicator files of the model: one indicator; and the vendor
\* reporting its name under two indexes, with another indicator after them.
MonthlyName == "Debt service ratios for private non-financial sector"
MonthlyTables ==
  { << [index |-> 1, name |-> MonthlyName] >>,
    << [index |-> 1, name |-> MonthlyName], [index |-> 2, name |-> MonthlyName],
       [index |-> 3, name |-> "Access to electricity"] >> }

\* The cfg directories: country-code.csv, and each indicator file present or not.
CfgDirs ==
  LET opt(key, tables) == {[k \in {} |-> 0]} \cup {key :> t : t \in tables}
  IN  { ("api" :> ApiTable) @@ a @@ m :
          a \in opt("annual", PersistedTables), m \in opt("monthly", MonthlyTables) }

\* The keyword arguments of getUri.
PeriodKwargs ==
  { NoKwargs, "period" :> "latest", ("start_year" :> 1960) @@ ("end_year" :> 2020) }
IndicatorKwargs(frequency) ==
  LET names == IF frequency = annual THEN Names ELSE {MonthlyName}
  IN  { NoKwargs, "indexes" :> <<>>, "indexes" :> <<1>>, "indexes" :> <<2, 1>> }
        \cup { "indicators" :> ns : ns \in SeqsUpTo(names, MaxNames) }
        \cup { ("indicators" :> <<n>>) @@ ("indexes" :> <<2>>) : n \in names }

\* The data elements of a response: annual, monthly, with a month out of range,
\* with a year that is no number, without a value, and empty.
Leaf(tag, text) == Element(tag, NoKwargs, <<>>, text)
DataElement(fields) == Element("ge:element", NoKwargs, fields, "")
ElementDocs ==
  { DataElement(<<Leaf("ge:year", "2020"), Leaf("ge:indicator", "Access to electricity"),
                  Leaf("ge:value", "99.5")>>),
    DataElement(<<Leaf("ge:year", "2020"), Leaf("ge:month", "3"),
                  Leaf("ge:indicator", MonthlyName), Leaf("ge:value", "")>>),
    DataElement(<<Leaf("ge:year", "2020"), Leaf("ge:month", "13"),
                  Leaf("ge:indicator", MonthlyName), Leaf("ge:value", "1.5")>>),
    DataElement(<<Leaf("ge:year", "n/a"), Leaf("ge:indicator", "Access to electricity"),
                  Leaf("ge:value", "99.5")>>),
    DataElement(<<Leaf("ge:year", "2020"), Leaf("ge:indicator", "Access to electricity")>>),
    DataElement(<<>>) }

\* The id attribute of a country element, present or not.
CountryAttrs == { NoKwargs, "id" :> "IN" }

RECURSIVE Sum(_)
Sum(s) == IF s = <<>> THEN 0 ELSE Head(s) + Sum(Tail(s))

\* The first n members of s, and s without them.
Take(s, n) == SubSeq(s, 1, n)
Drop(s, n) == SubSeq(s, n + 1, Len(s))

\* Country elements with these attributes, the i-th holding the next
\* counts[i] elements of flat.
RECURSIVE CountryDocs(_, _, _)
CountryDocs(attrs, counts, flat) ==
  IF attrs = <<>> THEN <<>>
  ELSE <<Element("ge:country", Head(attrs), Take(flat, Head(counts)), "")>>
         \o CountryDocs(Tail(attrs), Tail(counts), Drop(flat, Head(counts)))

\* The namespace declaration that the ge: prefix needs for the document to be
\* well-formed.
RootAttrs == "xmlns:ge" :> "https://www.theglobaleconomy.com"

\* The shapes of a ge:data document: n country elements, the i-th with the
\* attributes attrs[i] and the next counts[i] data elements of flat.  What lies
\* past the countries and past the elements held is fixed, so that a document
\* has one shape.
DocShapes ==
  { p \in [n : 0..MaxCountries,
           attrs : [1..MaxCountries -> CountryAttrs],
           counts : [1..MaxCountries -> 0..MaxElements],
           flat : [1..MaxElements -> ElementDocs]] :
      /\ Sum(p.counts) <= MaxElements
      /\ \A i \in 1..MaxCountries : i > p.n => p.attrs[i] = NoKwargs /\ p.counts[i] = 0
      /\ \A j \in 1..MaxElements : j > Sum(p.counts) => p.flat[j] = DataElement(<<>>) }

\* The well-formed response documents: a ge:data root with at most MaxCountries
\* country elements holding at most MaxElements data elements in all, and a
\* document with another root.
Docs ==
  { Element("error", NoKwargs, <<>>, "not authorised") }
    \cup { Element("ge:data", RootAttrs,
                   CountryDocs(Take(p.attrs, p.n), Take(p.counts, p.n), p.flat), "") :
             p \in DocShapes }

\* What the network does with a request.
Exceptions ==
  {"HTTPError", "ConnectionError", "ConnectTimeout", "ReadTimeout", "TooManyRedirects",
   "MemoryError", "KeyboardInterrupt"}
Failure(exc) == [t |-> "exception", exc |-> exc]
Body(content) == [t |-> "response", content |-> content]
Responses ==
  {Failure(e) : e \in Exceptions} \cup {Body(NotXml)} \cup {Body(d) : d \in Docs}

\* What the network does with the request of a probe: a failure, a body that
\* is no XML, or a document with one country element that has an id and one
\* data element.
ProbeResponses ==
  {Failure("ReadTimeout"), Body(NotXml)}
    \cup {Body(d) : d \in {x \in Docs : /\ Len(x.children) = 1
                                        /\ DOMAIN x.children[1].attrs # {}
                                        /\ Len(x.children[1].children) = 1}}

\* The example URI of the vendor's note.
SampleUri ==
  [t |-> "uri", root |-> Root, tp |-> 1, ind |-> <<"2">>, cnt |-> <<"CN">>,
   prd |-> "1960:2022", uid |-> Credentials.uid, uidc |-> Credentials.uidc]

(***************************************************************************)
(* The state: the cfg directory (files), whether a client exists (obj:     *)
(* "absent" before the constructor ran, "ready" after it returned,         *)
(* "failed" after it raised), the client's tables (lut) and the call       *)
(* observed.                                                               *)
(***************************************************************************)
NoCall == [op |-> "none"]

\* Before the constructor runs.
InitCfg ==
  /\ files \in CfgDirs
  /\ obj = "absent"
  /\ lut = NoKwargs
  /\ call = NoCall

\* The cfg directories that hold every file: the constructor loads them and
\* sends nothing.
FullDirs == {d \in CfgDirs : DOMAIN d = {"api", "annual", "monthly"}}

\* After the constructor returned for a cfg directory that holds every file.
InitReady ==
  /\ files \in FullDirs
  /\ obj = "ready"
  /\ lut = Init__(files, NoKwargs).lut
  /\ call = NoCall

\* The same, with the annual indicator file that lists both annual indicators.
AnnualTable ==
  << [index |-> 1, name |-> "Exports, percent of GDP"],
     [index |-> 2, name |-> "Access to electricity"] >>

InitResponse == InitReady /\ files["annual"] = AnnualTable

\* A method is called on a client that exists.
Callable == obj = "ready" /\ call.op \in {"none", "__init__"}

\* Client( cfg_path=... )
Construct ==
  /\ obj = "absent"
  /\ \E response \in {Failure("ConnectionError"), Body(NotXml)} :
       \E made \in {Init__(files, [i \in 1..DefaultMaxIndex |-> response])} :
           /\ obj' = IF made.outcome.ok THEN "ready" ELSE "failed"
           /\ lut' = IF made.outcome.ok THEN made.lut ELSE NoKwargs
           /\ files' = made.dir
           /\ call' = [op |-> "__init__", dir |-> files, outcome |-> made.outcome]

GetAlpha2Codes ==
  /\ Callable
  /\ \E iso_codes \in SeqsUpTo(IsoInputs, MaxIso) :
       call' = [op |-> "getAlpha2Codes", iso_codes |-> iso_codes,
                outcome |-> Return(getAlpha2Codes(iso_codes))]
  /\ UNCHANGED <<files, obj, lut>>

GetAlpha3Codes ==
  /\ Callable
  /\ \E iso_codes \in SeqsUpTo(IsoInputs, MaxIso) :
       call' = [op |-> "getAlpha3Codes", iso_codes |-> iso_codes,
                outcome |-> Return(getAlpha3Codes(iso_codes))]
  /\ UNCHANGED <<files, obj, lut>>

GetIndicatorIndexes ==
  /\ Callable
  /\ \E i \in DOMAIN Frequency :
       \E names \in SeqsUpTo(Names \cup {MonthlyName}, MaxNames) :
         call' = [op |-> "getIndicatorIndexes", frequency |-> Frequency[i], names |-> names,
                  outcome |-> Return(getIndicatorIndexes(Self, Frequency[i], names))]
  /\ UNCHANGED <<files, obj, lut>>

GetUri ==
  /\ Callable
  /\ \E i \in DOMAIN Frequency :
       \E iso_codes \in SeqsUpTo(IsoInputs, MaxIso) :
         \E pk \in PeriodKwargs, ik \in IndicatorKwargs(Frequency[i]) :
           \E iter \in SetOrders(iso_codes, Frequency[i]) :
             call' = [op |-> "getUri", iso_codes |-> iso_codes, frequency |-> Frequency[i],
                      kwargs |-> pk @@ ik,
                      outcome |-> Call_getUri(Self, <<iso_codes, Frequency[i]>>, pk @@ ik, iter)]
  /\ UNCHANGED <<files, obj, lut>>

GetIndicatorLookup ==
  /\ Callable
  /\ \E i \in DOMAIN Frequency, max_index \in 1..MaxProbe :
       \E responses \in [1..(max_index - 1) -> ProbeResponses] :
         LET got == getIndicatorLookup(Self, Frequency[i], max_index, responses)
         IN  call' = [op |-> "getIndicatorLookup", frequency |-> Frequency[i],
                      max_index |-> max_index, responses |-> responses,
                      outcome |-> got.outcome, probes |-> got.probes, sleeps |-> got.sleeps]
  /\ UNCHANGED <<files, obj, lut>>

PostRequest ==
  /\ Callable
  /\ \E uri \in {PyNone, SampleUri}, response \in Responses :
       LET got == postRequest(uri, response)
       IN  call' = [op |-> "postRequest", uri |-> uri, response |-> response,
                    outcome |-> got.outcome, gets |-> got.gets, printed |-> got.printed]
  /\ UNCHANGED <<files, obj, lut>>

ConvertToDataFrame ==
  /\ Callable
  /\ \E data \in {PyNone} \cup {xmltodict_parse(d) : d \in Docs} :
       call' = [op |-> "convertToDataFrame", data |-> data,
                outcome |-> convertToDataFrame(data)]
  /\ UNCHANGED <<files, obj, lut>>

\* runTests.test1: getUri, then convertToDataFrame( postRequest( uri ) ).
test1(self, response) ==
  LET uri == Call_getUri(self, <<<<"IN", "CN">>, monthly>>,
                         ("indicators" :> <<MonthlyName>>) @@ ("period" :> "latest"), <<>>)
      data == IF uri.ok THEN postRequest(uri.value, response).outcome ELSE uri
      df == IF data.ok THEN convertToDataFrame(data.value) ELSE data
  IN  [uri |-> uri, data |-> data, outcome |-> df]

Test1 ==
  /\ Callable
  /\ \E response \in Responses :
       LET ran == test1(Self, response)
       IN  call' = [op |-> "test1", response |-> response, uri |-> ran.uri,
                    data |-> ran.data, outcome |-> ran.outcome]
  /\ UNCHANGED <<files, obj, lut>>

\* The constructor and the indicator tables.
NextLookup == Construct \/ GetIndicatorIndexes \/ GetIndicatorLookup
SpecLookup == InitCfg /\ [][NextLookup]_vars

\* The URI builder and the country code translator.
NextUri == GetUri \/ GetAlpha2Codes \/ GetAlpha3Codes
SpecUri == InitReady /\ [][NextUri]_vars

\* The request executor and the response parser.
NextResponse == PostRequest \/ ConvertToDataFrame \/ Test1
SpecResponse == InitResponse /\ [][NextResponse]_vars

Next == NextLookup \/ NextUri \/ NextResponse
Spec == InitCfg /\ [][Next]_vars

(***************************************************************************)
(* Properties.                                                             *)
(***************************************************************************)
\* An identifier that is an ISO code of a country pycountry knows.
Recognized(iso_code) ==
  \E c \in Countries : iso_code = c.alpha_2 \/ iso_code = c.alpha_3

\* The codes that getUri resolves for the country identifiers of a call: the
\* 2-letter codes of an annual query, the 3-letter codes of a monthly one.
ResolvedCodes(c) ==
  IF c.frequency = annual THEN getAlpha2Codes(c.iso_codes) ELSE getAlpha3Codes(c.iso_codes)

\* The indexes that getUri resolves from the keyword arguments of a call, when
\* indicators or indexes was given.
ResolvedIndexes(c) ==
  IF Given(c.kwargs, "indicators")
    THEN getIndicatorIndexes(Self, c.frequency, c.kwargs["indicators"])
  ELSE c.kwargs["indexes"]

\* C1: getUri returns None whenever no country code is resolved or the resolved
\* indexes are empty, for both frequencies; in particular it produces no URI
\* when every country identifier given is unrecognized.
C1_NoneWhenNothingResolved ==
  (call.op = "getUri" /\ (Given(call.kwargs, "indicators") \/ Given(call.kwargs, "indexes")))
    =>
    /\ (ResolvedCodes(call) = {} \/ ResolvedIndexes(call) = <<>>)
       => call.outcome.ok /\ call.outcome.value.t = "None"
    /\ (\A i \in DOMAIN call.iso_codes : ~Recognized(call.iso_codes[i]))
       => call.outcome.ok /\ call.outcome.value.t = "None"

\* C2: getUri never raises: whatever the frequency, the country identifiers and
\* the optional arguments given, it returns a URI or None.
C2_GetUriNeverRaises ==
  call.op = "getUri" =>
    call.outcome.ok /\ call.outcome.value.t \in {"uri", "None"}

\* A payload that is None, or has no 'ge:data' key, or whose 'ge:data' section
\* has no 'ge:country' key.
Malformed(data) ==
  \/ data.t = "None"
  \/ data.t = "dict" /\ "ge:data" \notin DOMAIN data.map
  \/ /\ data.t = "dict" /\ "ge:data" \in DOMAIN data.map
     /\ data.map["ge:data"].t = "dict"
     /\ "ge:country" \notin DOMAIN data.map["ge:data"].map

\* C3: convertToDataFrame returns None, without raising, for every empty or
\* malformed payload, so test1's convertToDataFrame( postRequest( uri ) ) yields
\* None whenever the request failed.
C3_NoneForMalformedPayload ==
  /\ (call.op = "convertToDataFrame" /\ Malformed(call.data))
       => call.outcome.ok /\ call.outcome.value.t = "None"
  /\ (call.op = "test1" /\ call.data.ok /\ call.data.value.t = "None")
       => call.outcome.ok /\ call.outcome.value.t = "None"

\* A call of postRequest whose request failed: no URI to request, an exception
\* of the request or of the status check, or a body that is no well-formed XML.
RequestFailed(c) ==
  \/ c.uri.t = "None"
  \/ c.response.t = "exception"
  \/ c.response.t = "response" /\ c.response.content = NotXml

\* C4: postRequest makes one request and never propagates a failure: it returns
\* None for every failure of the request, and a parsed mapping only when the
\* request succeeded with a body that is well-formed XML.
C4_PostRequestNeverPropagates ==
  call.op = "postRequest" =>
    /\ call.outcome.ok
    /\ call.gets = 1
    /\ RequestFailed(call) => call.outcome.value.t = "None"
    /\ call.outcome.value.t # "None" =>
         /\ ~RequestFailed(call)
         /\ call.outcome.value = xmltodict_parse(call.response.content)

\* C4, witness: an exception that only the last except clause catches came out as None.
C4_Witness ==
  /\ call.op = "postRequest"
  /\ call.uri.t = "uri"
  /\ call.response = Failure("KeyboardInterrupt")
  /\ call.outcome.ok /\ call.outcome.value.t = "None"
  /\ call.printed = Len(ExceptClauses)

\* The equivalents of the recognized identifiers among iso_codes.
Equivalents(iso_codes, field) ==
  {c[field] : c \in {k \in Countries :
                       \E i \in DOMAIN iso_codes :
                         iso_codes[i] = k.alpha_2 \/ iso_codes[i] = k.alpha_3}}

\* C5: getAlpha2Codes and getAlpha3Codes return exactly the equivalents of the
\* recognized codes given; every unrecognized identifier is dropped.
C5_ExactlyRecognizedEquivalents ==
  /\ call.op = "getAlpha2Codes" =>
       call.outcome.ok /\ call.outcome.value = Equivalents(call.iso_codes, "alpha_2")
  /\ call.op = "getAlpha3Codes" =>
       call.outcome.ok /\ call.outcome.value = Equivalents(call.iso_codes, "alpha_3")

\* The rows of a table with a name.
RowsWithName(table, name) == {i \in DOMAIN table : NameEq(table[i].name, name)}

\* The positions of names whose name has exactly one row in the table, and how
\* many of them come at or before a position.
ResolvedAt(table, names) ==
  {p \in DOMAIN names : Cardinality(RowsWithName(table, names[p])) = 1}
Rank(table, names, p) == Cardinality({q \in ResolvedAt(table, names) : q <= p})

\* C6: getIndicatorIndexes includes the index of a name if and only if the
\* frequency's table has exactly one row with that name, lists the indexes in
\* the order of the names, does not fail on unresolved names, and leaves the
\* table as the constructor loaded it (so that resolving again gives the same).
C6_ExactlyOneRowResolves ==
  call.op = "getIndicatorIndexes" =>
    LET table == lut[call.frequency.name]
        found == call.outcome.value
    IN  /\ call.outcome.ok
        /\ Len(found) = Cardinality(ResolvedAt(table, call.names))
        /\ \A p \in ResolvedAt(table, call.names) :
             \A i \in RowsWithName(table, call.names[p]) :
               found[Rank(table, call.names, p)] = table[i].index
        /\ table = read_csv(files[call.frequency.name])

\* C6, witness: of two names the first has two rows and is skipped, the second
\* has one row and is resolved.
C6_Witness ==
  /\ call.op = "getIndicatorIndexes"
  /\ Len(call.names) = 2
  /\ Cardinality(RowsWithName(lut[call.frequency.name], call.names[1])) = 2
  /\ Cardinality(RowsWithName(lut[call.frequency.name], call.names[2])) = 1
  /\ Len(call.outcome.value) = 1

\* C7: every (index, name) pair that the bootstrap recorded in the indicator
\* file of a frequency comes back: getIndicatorIndexes for [name] returns
\* [index], also when the name was recorded under two indexes.
C7_RecordedPairRoundTrip ==
  (call.op = "getIndicatorIndexes" /\ Len(call.names) = 1) =>
    \A i \in DOMAIN files[call.frequency.name] :
      files[call.frequency.name][i].name = call.names[1]
        => call.outcome = Return(<<files[call.frequency.name][i].index>>)

\* The body of a probe's response holds the name of an indicator.
WellFormedProbe(response) ==
  /\ response.t = "response"
  /\ isXml(response.content)
  /\ IndicatorName(xmltodict_parse(response.content)).ok

\* C8: the bootstrap that the constructor runs for an absent indicator file
\* returns: getIndicatorLookup( frequency, N ) sends one probe for each index
\* 1..N, records the pair of every probe with a well-formed response, goes past
\* the others, pauses after each probe, and returns the pairs recorded.
C8_BootstrapProbesEveryIndex ==
  /\ call.op = "__init__" => call.outcome.ok
  /\ call.op = "getIndicatorLookup" =>
       /\ call.outcome.ok
       /\ call.probes = call.max_index
       /\ call.sleeps = call.probes
       /\ \A idx \in DOMAIN call.responses :
            WellFormedProbe(call.responses[idx]) <=>
              \E k \in DOMAIN call.outcome.value : call.outcome.value[k].index = idx

\* C9: the cnt field of a monthly URI holds exactly the vendor IDs of the rows
\* of the country-code table whose code is one of the resolved 3-letter codes,
\* one ID per such row; an annual URI has tp = 1 and the resolved 2-letter codes.
C9_CntHoldsRequestedCountries ==
  (call.op = "getUri" /\ call.outcome.ok /\ call.outcome.value.t = "uri") =>
    LET uri == call.outcome.value
        rows == {i \in DOMAIN lut["api"] : lut["api"][i].code \in getAlpha3Codes(call.iso_codes)}
    IN  IF call.frequency = monthly
          THEN /\ uri.tp = 2
               /\ Range(uri.cnt) = {ToString(lut["api"][i].id) : i \in rows}
               /\ Len(uri.cnt) = Cardinality(rows)
        ELSE /\ uri.tp = 1
             /\ Range(uri.cnt) = getAlpha2Codes(call.iso_codes)

\* A payload with the 'ge:data' and 'ge:country' sections.
HasSections(data) ==
  /\ data.t = "dict" /\ "ge:data" \in DOMAIN data.map
  /\ data.map["ge:data"].t = "dict"
  /\ "ge:country" \in DOMAIN data.map["ge:data"].map

\* The rows of the country entries: those of the elements that parse, for an
\* entry with an element section, and none for an entry without one.
RECURSIVE RowsOfEntries(_)
RowsOfEntries(entries) ==
  IF entries = <<>> THEN <<>>
  ELSE LET entry == Head(entries)
       IN  (IF entry.t = "dict" /\ "ge:element" \in DOMAIN entry.map
              THEN ElementRecords(entry, AsList(entry.map["ge:element"]))
            ELSE <<>>) \o RowsOfEntries(Tail(entries))

\* C10: for a payload with both sections, convertToDataFrame takes a single
\* country entry or element as a sequence of one, skips the country entries
\* without an element section and the elements that fail to parse, makes one
\* row of every other element, and returns None if and only if no row was made.
C10_OneRowPerParsedElement ==
  (call.op = "convertToDataFrame" /\ HasSections(call.data)) =>
    LET rows == RowsOfEntries(AsList(call.data.map["ge:data"].map["ge:country"]))
    IN  /\ call.outcome.ok
        /\ IF rows = <<>> THEN call.outcome.value.t = "None"
           ELSE call.outcome.value.t = "DataFrame" /\ call.outcome.value.rows = rows
====
